---- MODULE Spec2Model ----
(***************************************************************************)
(* Model of plaintext_daily_bot.py: the three generating command handlers  *)
(* (idea, caption, post), the two OpenAI clients they call and the image   *)
(* compositor add_logo_or_mark.                                            *)
(*                                                                         *)
(* A Python str is modelled as a sequence of tokens (each token a chunk of *)
(* text), so that concatenation, " ".join, str.strip and substring tests   *)
(* are computed and not assumed.  An optional value (a local variable not  *)
(* yet assigned, "no exception") is a sequence of length 0 or 1.           *)
(***************************************************************************)
EXTENDS Integers, Sequences, FiniteSets, TLC

\* ------------------------------------------------------------------ bounds
\* longest context.args (words after the command) that is enumerated
MaxArgs == 2
\* longest raw completion (in tokens) the text service is made to return
MaxLen == 2

\* ------------------------------------------------------- program constants
\* margin of the mark from the right and bottom edges, in pixels
MARGIN == 40
\* logo width as a percentage of the image width (img.width * 0.16)
LOGO_PCT == 16
\* disc radius as a percentage of the image width (img.width * 0.12)
MARK_PCT == 12

VOICE == <<"You are the voice of 'plaintext.daily' ... Keep 12-18 words if possible.">>

TAGLINE == "practical > perfect"

HASHTAGS == <<"#plaintextdaily #internetfieldnotes #practicaloverperfect #makerhabits #shipdaily #minimaldesign">>

STYLE_PROMPT == <<"Minimal, type-forward square card. ... No photos, no gradients.">>

CAPTION_DEFAULT_TOPIC == <<"a tiny workflow habit that compounds">>

POST_DEFAULT_TOPIC == <<"one simple framework to ship daily">>

\* ---------------------------------------------------------------- strings
SeqsUpTo(S, n) == UNION {[1..k -> S] : k \in 0..n}

\* words a user may type after the command
Words == {"ship", "daily"}

\* tokens a completion may be made of: text, the tagline, the hashtag block,
\* and whitespace (which str.strip removes at both ends)
WS == {" "}
Chars == {"word", TAGLINE, HASHTAGS[1]} \cup WS

\* " ".join(args)
RECURSIVE Join(_)
Join(a) ==
  IF Len(a) = 0 THEN <<>>
  ELSE IF Len(a) = 1 THEN <<a[1]>>
  ELSE <<a[1], " ">> \o Join(Tail(a))

\* s.strip()
RECURSIVE LStrip(_)
LStrip(s) == IF Len(s) > 0 /\ s[1] \in WS THEN LStrip(Tail(s)) ELSE s

RECURSIVE RStrip(_)
RStrip(s) ==
  IF Len(s) > 0 /\ s[Len(s)] \in WS THEN RStrip(SubSeq(s, 1, Len(s) - 1)) ELSE s

Strip(s) == RStrip(LStrip(s))

\* x or default   (a Python empty str is falsy)
OrDefault(x, d) == IF Len(x) = 0 THEN d ELSE x

\* sub in s   (contiguous substring)
Contains(s, sub) ==
  \E i \in 0..(Len(s) - Len(sub)) : SubSeq(s, i + 1, i + Len(sub)) = sub

EndsWith(s, sub) ==
  Len(s) >= Len(sub) /\ SubSeq(s, Len(s) - Len(sub) + 1, Len(s)) = sub

\* number of (possibly overlapping) occurrences of sub in s
Count(s, sub) ==
  Cardinality({i \in 0..(Len(s) - Len(sub)) : SubSeq(s, i + 1, i + Len(sub)) = sub})

\* ---------------------------------------------------------------- prompts
IdeaPrompt ==
  VOICE \o <<" Generate 3 distinct post ideas for today. Format each as: \n- Hook: <7-10 words>\n  Angle: <one line>.">>

CaptionTopic(a) == OrDefault(Join(a), CAPTION_DEFAULT_TOPIC)

CaptionPrompt(a) ==
  VOICE \o <<" Write one Instagram caption about: ">> \o CaptionTopic(a)
        \o <<". 1-2 short sentences. End with: '", TAGLINE, "'. No emojis.">>

\* mutant: the "or <default>" of post is dropped
PostTopic_NoDefault(a) == Join(a)

PostTopic(a) == OrDefault(Join(a), POST_DEFAULT_TOPIC)

PostCapPrompt(a) ==
  VOICE \o <<" Write 1-2 short sentences for Instagram about: ">> \o PostTopic(a)
        \o <<". Make it crisp, zero fluff. End with '", TAGLINE, "'.">>

PostImgPrompt(a) ==
  STYLE_PROMPT \o <<" Content text theme: ">> \o PostTopic(a)
               \o <<". Render as a clean poster (no photo).">>

\* mutant: the hashtag block is appended to a text that already got it
WithHashtags_Twice(text) == text \o <<"\n\n">> \o HASHTAGS \o <<"\n\n">> \o HASHTAGS

\* f"{text}\n\n{HASHTAGS}"
WithHashtags(text) == text \o <<"\n\n">> \o HASHTAGS

\* ------------------------------------------------------------- exceptions
\* What the two clients can raise, by the kind of failure of the call:
\* urlopen raises URLError when the host cannot be reached, URLError wrapping
\* a timeout or TimeoutError when the timeout passes, HTTPError on a non-2xx
\* status; json.loads and the subscripts raise on a body without the expected
\* field; Image.open / b64decode raise on a payload that is no image.
ChatFaults == {"Network", "Timeout", "UpstreamError", "MalformedResponse"}

ImageFaults == ChatFaults \cup {"DecodeError"}

Raises(k) ==
  CASE k = "Network"           -> {"urllib.error.URLError(unreachable)"}
    [] k = "Timeout"           -> {"urllib.error.URLError(timed out)", "TimeoutError"}
    [] k = "UpstreamError"     -> {"urllib.error.HTTPError"}
    [] k = "MalformedResponse" -> {"json.JSONDecodeError", "KeyError"}
    [] k = "DecodeError"       -> {"PIL.UnidentifiedImageError"}

\* what a reply of the Telegram API can raise
TelegramError == "telegram.error.TelegramError"

\* ---------------------------------------------------------------- clients
\* The outcomes of one call of the chat-completions endpoint: a completion,
\* or a failure of one of the kinds above.
ChatReplies ==
  {[fault |-> "none", exc |-> "", content |-> c] : c \in SeqsUpTo(Chars, MaxLen)}
  \cup UNION {{[fault |-> k, exc |-> e, content |-> <<>>] : e \in Raises(k)} : k \in ChatFaults}

\* openai_chat(prompt): the stripped completion, or the exception of the call
openai_chat(prompt, reply) ==
  IF reply.fault = "none"
  THEN [ok |-> TRUE, val |-> Strip(reply.content), exc |-> ""]
  ELSE [ok |-> FALSE, val |-> <<>>, exc |-> reply.exc]

\* sizes of the image the images endpoint returns (1024x1024 is what the bot
\* asks for; the other sizes are the endpoint's other formats and a small one)
ImgSizes == {<<1024, 1024>>, <<1536, 1024>>, <<1024, 1536>>, <<100, 100>>}

ImageReplies ==
  {[fault |-> "none", exc |-> "", size |-> z] : z \in ImgSizes}
  \cup UNION {{[fault |-> k, exc |-> e, size |-> <<0, 0>>] : e \in Raises(k)} : k \in ImageFaults}

\* a decoded raster image: its size, its mode, and what has been drawn on it
NewImage(z) == [width |-> z[1], height |-> z[2], mode |-> "RGBA", marks |-> <<>>]

\* openai_image(prompt): the decoded image converted to RGBA, or the exception
openai_image(prompt, reply) ==
  IF reply.fault = "none"
  THEN [ok |-> TRUE, val |-> <<NewImage(reply.size)>>, exc |-> ""]
  ELSE [ok |-> FALSE, val |-> <<>>, exc |-> reply.exc]

\* ------------------------------------------------------------- compositor
\* mutant: the logo is scaled to the disc's 12% instead of 16%
LogoWidth_MarkPct(W) == (W * MARK_PCT) \div 100

\* int(img.width * 0.16): the float product truncated; equal to the integer
\* quotient below for every width up to 20000
LogoWidth(W) == (W * LOGO_PCT) \div 100

\* int(logo.height * ratio) with ratio = w / logo.width: a float product
\* truncated.  For some sizes the float falls just under the exact quotient
\* and the result is one less; for every pair of LogoDims and ImgSizes it is
\* the integer quotient below.
ScaledHeight(lh, w, lw) == (lh * w) \div lw

\* mutant: round(img.width * 0.12) instead of int(...)
MarkRadius_Rounded(W) == (W * MARK_PCT + 50) \div 100

\* int(img.width * 0.12)
MarkRadius(W) == (W * MARK_PCT) \div 100

\* What the logo source and the imaging library can do in one call:
\*   fetch     the GET of LOGO_URL: "ok" (a decodable image of lw x lh),
\*             "network", "timeout", or "nonimage" (a body Image.open rejects)
\*   negDestRaises  whether this Pillow's alpha_composite rejects a negative
\*             destination (older releases do, newer ones crop)
\*   textsize  whether this Pillow still has ImageDraw.textsize
LogoDims == {<<400, 400>>, <<800, 200>>, <<1000, 1>>, <<10, 1000>>}

LogoEnvs ==
  {[fetch |-> "ok", lw |-> d[1], lh |-> d[2], negDestRaises |-> n, textsize |-> t] :
      d \in LogoDims, n \in BOOLEAN, t \in BOOLEAN}
  \cup {[fetch |-> f, lw |-> 0, lh |-> 0, negDestRaises |-> n, textsize |-> t] :
      f \in {"network", "timeout", "nonimage"}, n \in BOOLEAN, t \in BOOLEAN}

\* the body of the try block: fetch, decode, resize, alpha_composite, each of
\* which either raises (leaving img as it was) or completes
TryLogo(img, env) ==
  LET w == LogoWidth(img.width)
      h == ScaledHeight(env.lh, w, env.lw)
      x == img.width - w - MARGIN
      y == img.height - h - MARGIN
      raise(e) == [ok |-> FALSE, img |-> img, exc |-> e]
  IN  IF env.fetch \in {"network", "timeout"}
        THEN raise("requests.exceptions.RequestException")
      ELSE IF env.fetch = "nonimage"
        THEN raise("PIL.UnidentifiedImageError")
      ELSE IF w < 1 \/ h < 1
        THEN raise("ValueError(height and width must be > 0)")
      ELSE IF (x < 0 \/ y < 0) /\ env.negDestRaises
        THEN raise("ValueError(Destination must be non-negative)")
      ELSE [ok  |-> TRUE,
            img |-> [img EXCEPT !.marks =
                       Append(@, [type |-> "logo", x |-> x, y |-> y, w |-> w, h |-> h])],
            exc |-> ""]

\* mutant: except requests.RequestException, which lets decode and resize
\* errors leave the function
ExceptRequestsOnly(e) == e = "requests.exceptions.RequestException"

\* except Exception: every exception of the try block is caught
ExceptException(e) == TRUE

\* the fallback: draw.ellipse of radius r about (cx, cy), and the 'pd' glyph
\* when draw.textsize exists (its AttributeError is swallowed otherwise)
DrawMark(img, env) ==
  LET r  == MarkRadius(img.width)
      cx == img.width - r - MARGIN
      cy == img.height - r - MARGIN
  IN  [img EXCEPT !.marks =
         Append(@, [type |-> "disc", r |-> r, cx |-> cx, cy |-> cy, glyph |-> env.textsize])]

\* mutant: the "return img" after alpha_composite is missing, so the disc is
\* drawn over an image that already carries the logo
add_logo_or_mark_FallThrough(img, url, env) ==
  LET copy == img
      t    == TryLogo(copy, env)
  IN  [raised |-> FALSE, exc |-> "", arg |-> img, fetched |-> url # "",
       ret |-> <<DrawMark(IF url # "" THEN t.img ELSE copy, env)>>]

\* add_logo_or_mark(img): ret is the image returned, arg the caller's image
\* object after the call, fetched whether LOGO_URL was requested, raised/exc an
\* exception that leaves the function
add_logo_or_mark(img, url, env) ==
  LET copy == img
      t    == TryLogo(copy, env)
      out(i) == [raised |-> FALSE, exc |-> "", ret |-> <<i>>, arg |-> img,
                 fetched |-> url # ""]
  IN  IF url # "" /\ t.ok THEN out(t.img)
      ELSE IF url # "" /\ ~t.ok /\ ~ExceptException(t.exc)
        THEN [raised |-> TRUE, exc |-> t.exc, ret |-> <<>>, arg |-> img, fetched |-> TRUE]
      ELSE out(DrawMark(IF url # "" THEN t.img ELSE copy, env))

\* img.save(buf, format="PNG"): the encoded image keeps size, mode and pixels
EncodePNG(img) == [format |-> "PNG", width |-> img.width, height |-> img.height,
                   mode |-> img.mode, marks |-> img.marks]

\* ------------------------------------------------------------------ state
VARIABLES
  kind,          \* the command of this update: "Idea", "Caption" or "Post"
  args,          \* context.args, the words after the command
  logo_url,      \* LOGO_URL from the environment ("" when unset)
  pc,            \* position of the handler
  caption_text,  \* the local text / caption_text, once openai_chat returned
  raw_img,       \* the image object openai_image returned
  img,           \* the local img after add_logo_or_mark
  logo,          \* what the GET of LOGO_URL produced, once requested
  textCalls,     \* prompts sent to the chat endpoint, in order
  imageCalls,    \* prompts sent to the images endpoint, in order
  logoFetches,   \* number of GETs of LOGO_URL
  sent,          \* replies delivered to the chat, in order
  exc,           \* the exception that left the handler
  fault          \* the failure of a generation call that happened in this run

vars == <<kind, args, logo_url, pc, caption_text, raw_img, img, logo, textCalls,
          imageCalls, logoFetches, sent, exc, fault>>

Kinds == {"Idea", "Caption", "Post"}

Init ==
  /\ kind \in Kinds
  /\ args \in SeqsUpTo(Words, MaxArgs)
  /\ logo_url \in {"", "https://your-logo.png"}
  /\ pc = "start"
  /\ caption_text = <<>>
  /\ raw_img = <<>>
  /\ img = <<>>
  /\ logo = <<>>
  /\ textCalls = <<>>
  /\ imageCalls = <<>>
  /\ logoFetches = 0
  /\ sent = <<>>
  /\ exc = <<>>
  /\ fault = <<>>

\* mutant: the handler catches the client's exception and raises its own
Propagate_Wrapped(svc, reply, e) ==
  /\ pc' = "raised"
  /\ exc' = <<"RuntimeError(generation failed)">>
  /\ fault' = <<[svc |-> svc, kind |-> reply.fault, raised |-> e]>>

\* an exception of a generation client leaves the handler: nothing catches it
Propagate(svc, reply, e) ==
  /\ pc' = "raised"
  /\ exc' = <<e>>
  /\ fault' = <<[svc |-> svc, kind |-> reply.fault, raised |-> e]>>

\* text = openai_chat(prompt), in idea and caption
ChatThenReply(prompt) ==
  \E reply \in ChatReplies :
    LET r == openai_chat(prompt, reply)
    IN  /\ textCalls' = Append(textCalls, prompt)
        /\ IF r.ok
           THEN /\ caption_text' = <<r.val>>
                /\ pc' = "reply"
                /\ UNCHANGED <<exc, fault>>
           ELSE /\ Propagate("text", reply, r.exc)
                /\ UNCHANGED caption_text
        /\ UNCHANGED <<kind, args, logo_url, raw_img, img, logo, imageCalls,
                       logoFetches, sent>>

\* await update.message.reply_text(text): delivered, or the Telegram call
\* raises (always when the text is empty, which Telegram rejects)
ReplyText(text) ==
  \E ok \in (IF Len(text) = 0 THEN {FALSE} ELSE BOOLEAN) :
    /\ IF ok
       THEN /\ sent' = Append(sent, [type |-> "text", text |-> text, photo |-> <<>>])
            /\ pc' = "done"
            /\ UNCHANGED exc
       ELSE /\ pc' = "raised"
            /\ exc' = <<TelegramError>>
            /\ UNCHANGED sent
    /\ UNCHANGED <<kind, args, logo_url, caption_text, raw_img, img, logo, textCalls,
                   imageCalls, logoFetches, fault>>

\* idea, up to the return of openai_chat
IdeaChat == kind = "Idea" /\ pc = "start" /\ ChatThenReply(IdeaPrompt)

\* idea: reply_text(text)
IdeaReply == kind = "Idea" /\ pc = "reply" /\ ReplyText(caption_text[1])

\* caption, up to the return of openai_chat
CaptionChat == kind = "Caption" /\ pc = "start" /\ ChatThenReply(CaptionPrompt(args))

\* caption: reply_text(f"{text}\n\n{HASHTAGS}")
CaptionReply ==
  kind = "Caption" /\ pc = "reply" /\ ReplyText(WithHashtags(caption_text[1]))

\* mutant: a failed caption call is swallowed and post goes on to the image
\* with an empty caption
PostChat_Swallow ==
  /\ kind = "Post" /\ pc = "start"
  /\ \E reply \in ChatReplies :
       LET r == openai_chat(PostCapPrompt(args), reply)
       IN  /\ textCalls' = Append(textCalls, PostCapPrompt(args))
           /\ caption_text' = <<r.val>>
           /\ pc' = "post_image"
           /\ fault' = IF r.ok THEN fault
                       ELSE <<[svc |-> "text", kind |-> reply.fault, raised |-> r.exc]>>
  /\ UNCHANGED <<kind, args, logo_url, raw_img, img, logo, imageCalls, logoFetches,
                 sent, exc>>

\* post, 1) caption: caption_text = openai_chat(cap_prompt)
PostChat ==
  /\ kind = "Post" /\ pc = "start"
  /\ \E reply \in ChatReplies :
       LET r == openai_chat(PostCapPrompt(args), reply)
       IN  /\ textCalls' = Append(textCalls, PostCapPrompt(args))
           /\ IF r.ok
              THEN /\ caption_text' = <<r.val>>
                   /\ pc' = "post_image"
                   /\ UNCHANGED <<exc, fault>>
              ELSE /\ Propagate("text", reply, r.exc)
                   /\ UNCHANGED caption_text
  /\ UNCHANGED <<kind, args, logo_url, raw_img, img, logo, imageCalls, logoFetches, sent>>

\* mutant: when the image call fails, post still sends the caption as a text
\* message before the exception leaves it
PostImage_PartialFlush ==
  /\ kind = "Post" /\ pc = "post_image"
  /\ \E reply \in ImageReplies :
       LET r == openai_image(PostImgPrompt(args), reply)
       IN  /\ imageCalls' = Append(imageCalls, PostImgPrompt(args))
           /\ IF r.ok
              THEN /\ raw_img' = r.val
                   /\ pc' = "post_mark"
                   /\ UNCHANGED <<exc, fault, sent>>
              ELSE /\ Propagate("image", reply, r.exc)
                   /\ sent' = Append(sent, [type |-> "text",
                                            text |-> WithHashtags(caption_text[1]),
                                            photo |-> <<>>])
                   /\ UNCHANGED raw_img
  /\ UNCHANGED <<kind, args, logo_url, caption_text, img, logo, textCalls, logoFetches>>

\* mutant: a failed image call is made once more before the exception leaves
PostImage_Retry ==
  /\ kind = "Post" /\ pc = "post_image"
  /\ \E reply \in ImageReplies :
       LET r == openai_image(PostImgPrompt(args), reply)
       IN  /\ imageCalls' = Append(imageCalls, PostImgPrompt(args))
           /\ IF r.ok
              THEN /\ raw_img' = r.val
                   /\ pc' = "post_mark"
                   /\ UNCHANGED <<exc, fault>>
              ELSE IF Len(imageCalls) = 0
              THEN UNCHANGED <<pc, exc, fault, raw_img>>
              ELSE /\ Propagate("image", reply, r.exc)
                   /\ UNCHANGED raw_img
  /\ UNCHANGED <<kind, args, logo_url, caption_text, img, logo, textCalls, logoFetches, sent>>

\* post, 2) image: img = openai_image(img_prompt)
PostImage ==
  /\ kind = "Post" /\ pc = "post_image"
  /\ \E reply \in ImageReplies :
       LET r == openai_image(PostImgPrompt(args), reply)
       IN  /\ imageCalls' = Append(imageCalls, PostImgPrompt(args))
           /\ IF r.ok
              THEN /\ raw_img' = r.val
                   /\ pc' = "post_mark"
                   /\ UNCHANGED <<exc, fault>>
              ELSE /\ Propagate("image", reply, r.exc)
                   /\ UNCHANGED raw_img
  /\ UNCHANGED <<kind, args, logo_url, caption_text, img, logo, textCalls, logoFetches, sent>>

\* post: img = add_logo_or_mark(img)
PostMark ==
  /\ kind = "Post" /\ pc = "post_mark"
  /\ \E env \in LogoEnvs :
       LET r == add_logo_or_mark(raw_img[1], logo_url, env)
       IN  /\ raw_img' = <<r.arg>>
           /\ logoFetches' = logoFetches + (IF r.fetched THEN 1 ELSE 0)
           /\ logo' = IF r.fetched
                      THEN <<[fetch |-> env.fetch, width |-> env.lw, height |-> env.lh]>>
                      ELSE logo
           /\ IF r.raised
              THEN /\ pc' = "raised"
                   /\ exc' = <<r.exc>>
                   /\ UNCHANGED img
              ELSE /\ img' = r.ret
                   /\ pc' = "post_reply"
                   /\ UNCHANGED exc
  /\ UNCHANGED <<kind, args, logo_url, caption_text, textCalls, imageCalls, sent, fault>>

\* post, 3) send: img.save(buf, format="PNG"); reply_photo(photo=buf, caption=...)
PostReply ==
  /\ kind = "Post" /\ pc = "post_reply"
  /\ \E ok \in BOOLEAN :
       IF ok
       THEN /\ sent' = Append(sent, [type  |-> "photo",
                                     text  |-> WithHashtags(caption_text[1]),
                                     photo |-> <<EncodePNG(img[1])>>])
            /\ pc' = "done"
            /\ UNCHANGED exc
       ELSE /\ pc' = "raised"
            /\ exc' = <<TelegramError>>
            /\ UNCHANGED sent
  /\ UNCHANGED <<kind, args, logo_url, caption_text, raw_img, img, logo, textCalls,
                 imageCalls, logoFetches, fault>>

Next ==
  \/ IdeaChat
  \/ IdeaReply
  \/ CaptionChat
  \/ CaptionReply
  \/ PostChat
  \/ PostImage
  \/ PostMark
  \/ PostReply

Spec == Init /\ [][Next]_vars

\* ----------------------------------------------------------------- claims
Terminal == pc \in {"done", "raised"}

\* add_logo_or_mark has been called and has ended in this run
Marked == kind = "Post" /\ raw_img # <<>> /\ pc # "post_mark"

HasLogo(i) == \E n \in 1..Len(i.marks) : i.marks[n].type = "logo"

HasDisc(i) == \E n \in 1..Len(i.marks) : i.marks[n].type = "disc"

TheMark == img[1].marks[1]

\* C2: add_logo_or_mark never raises and always returns an image; when
\* LOGO_URL is unset, or the fetch or decode failed, or the logo scales to an
\* empty size, the returned image carries the disc; and whenever the logo did
\* not end up on the image (also because it could not be placed), the disc did.
C2_MarkNeverRaises ==
  Marked =>
    /\ pc # "raised" \/ exc = <<TelegramError>>
    /\ Len(img) = 1
    /\ img[1].mode = "RGBA"
    /\ (logo_url = "" => logo = <<>> /\ HasDisc(img[1]))
    /\ (logo # <<>> /\ logo[1].fetch # "ok" => HasDisc(img[1]))
    /\ (logo # <<>> /\ logo[1].fetch = "ok"
          /\ logo[1].height * ((LOGO_PCT * img[1].width) \div 100) < logo[1].width
        => HasDisc(img[1]))
    /\ (~HasLogo(img[1]) => HasDisc(img[1]))

\* C2 witness: LOGO_URL is set, the body fetched is no image, and the call
\* returned an image with the disc
C2_Witness ==
  /\ Marked /\ logo # <<>> /\ logo[1].fetch = "nonimage"
  /\ Len(img) = 1 /\ HasDisc(img[1])

\* C3 (as amended): on the fallback path the radius r is 12% of the width
\* truncated to an integer, and the centre is (W - r - 40, H - r - 40); for
\* 1024x1024 with no LOGO_URL that is r = 122 and centre (862, 862).
C3_DiscGeometryTruncated ==
  Marked /\ Len(img) = 1 /\ HasDisc(img[1]) =>
    LET W == img[1].width
        H == img[1].height
        m == TheMark
    IN  /\ 100 * m.r <= 12 * W /\ 12 * W < 100 * (m.r + 1)
        /\ m.cx = W - m.r - 40
        /\ m.cy = H - m.r - 40
        /\ (W = 1024 /\ H = 1024 /\ logo_url = ""
              => m.r = 122 /\ m.cx = 862 /\ m.cy = 862)

\* C3 witness: a 1024x1024 image, no LOGO_URL, the disc drawn
C3_Witness ==
  /\ Marked /\ logo_url = "" /\ Len(img) = 1 /\ HasDisc(img[1])
  /\ img[1].width = 1024 /\ img[1].height = 1024

\* C3 as stated: the radius is 12% of the width rounded to the nearest
\* integer, so 123 with centre (861, 861) for 1024x1024 and no LOGO_URL.
C3_Original_DiscGeometryRounded ==
  Marked /\ Len(img) = 1 /\ HasDisc(img[1]) =>
    LET W == img[1].width
        H == img[1].height
        m == TheMark
    IN  /\ 100 * m.r - 50 <= 12 * W /\ 12 * W < 100 * m.r + 50
        /\ m.cx = W - m.r - 40
        /\ m.cy = H - m.r - 40
        /\ (W = 1024 /\ H = 1024 /\ logo_url = ""
              => m.r = 123 /\ m.cx = 861 /\ m.cy = 861)

\* the geometry the logo must have on an image of W x H
LogoPlaced(m, W, H, lw, lh) ==
  /\ m.type = "logo"
  /\ 100 * m.w <= 16 * W /\ 16 * W < 100 * (m.w + 1)
  /\ lw * m.h <= lh * m.w /\ lh * m.w < lw * (m.h + 1)
  /\ m.x + m.w = W - 40
  /\ m.y + m.h = H - 40

\* the logo of lw x lh, scaled to 16% of W, is at least 1x1 and lies within
\* an image of W x H when inset by 40
LogoFits(W, H, lw, lh) ==
  LET w == (16 * W) \div 100
      h == (lh * w) \div lw
  IN  w >= 1 /\ h >= 1 /\ W - w - 40 >= 0 /\ H - h - 40 >= 0

C10_ExactlyOneMark ==
  Marked /\ Len(img) = 1 =>
    /\ Len(img[1].marks) = 1
    /\ HasLogo(img[1]) # HasDisc(img[1])
    /\ raw_img[1].marks = <<>>
    /\ raw_img[1].width = img[1].width /\ raw_img[1].height = img[1].height
    /\ (logo = <<>> \/ logo[1].fetch # "ok" => ~HasLogo(img[1]))

\* C10 witness: the logo was fetched, did not end up on the image (it scaled
\* to an empty size or could not be placed), and the image holds the disc alone
C10_Witness ==
  /\ Marked /\ Len(img) = 1 /\ logo # <<>> /\ logo[1].fetch = "ok"
  /\ HasDisc(img[1]) /\ Len(img[1].marks) = 1

\* C5 (as amended): the text a Caption run delivers is the stripped
\* completion, a blank line, and the hashtag block, unchanged and appended
\* once at the end; the prompt asks for the tagline at the end, and the
\* caption part ends with it exactly when the completion does.
C5_CaptionHashtagsAppendedOnce ==
  kind = "Caption" /\ sent # <<>> =>
    LET text == sent[1].text
        completion == caption_text[1]
    IN  /\ Len(sent) = 1
        /\ text = completion \o <<"\n\n">> \o HASHTAGS
        /\ EndsWith(text, HASHTAGS)
        /\ Count(text, HASHTAGS) = Count(completion, HASHTAGS) + 1
        /\ SubSeq(text, 1, Len(completion)) = completion
        /\ Len(textCalls) = 1 /\ Contains(textCalls[1], <<TAGLINE>>)

\* C5 witness: a delivered caption whose completion does not end with the
\* tagline
C5_Witness ==
  /\ kind = "Caption" /\ pc = "done" /\ Len(sent) = 1
  /\ ~EndsWith(caption_text[1], <<TAGLINE>>)
  /\ EndsWith(sent[1].text, HASHTAGS)

\* C5 as stated: whatever the completion, the caption part of the delivered
\* text ends with the tagline, and the hashtag block follows it once after a
\* blank line.
C5_Original_CaptionEndsWithTagline ==
  kind = "Caption" /\ sent # <<>> =>
    /\ EndsWith(caption_text[1], <<TAGLINE>>)
    /\ sent[1].text = caption_text[1] \o <<"\n\n">> \o HASHTAGS

\* every prompt sent to a generation service in this run
PromptsSent == {textCalls[i] : i \in 1..Len(textCalls)}
                 \cup {imageCalls[i] : i \in 1..Len(imageCalls)}

\* C6 (as amended): every prompt of a Caption or Post run contains the topic,
\* the words after the command joined by single spaces, and the built-in
\* non-empty default of that command when there are none; the Idea prompt is
\* fixed and takes no topic.
C6_TopicInCaptionAndPostPrompts ==
  \A p \in PromptsSent :
    /\ (kind \in {"Caption", "Post"} /\ args # <<>>
          => Contains(p, Join(args)) /\ Len(Join(args)) = 2 * Len(args) - 1)
    /\ (kind = "Caption" /\ args = <<>>
          => Contains(p, <<"a tiny workflow habit that compounds">>))
    /\ (kind = "Post" /\ args = <<>>
          => Contains(p, <<"one simple framework to ship daily">>))
    /\ (kind = "Idea" => p = IdeaPrompt /\ \A w \in Words : ~Contains(p, <<w>>))

\* C6 witness: a Post run with a two-word topic has sent both its prompts
C6_Witness ==
  /\ kind = "Post" /\ Len(args) = 2
  /\ Len(textCalls) = 1 /\ Len(imageCalls) = 1

\* C6 as stated: for every kind, Idea included, each prompt sent contains the
\* topic, or the default topic when there is none.
C6_Original_TopicInEveryPrompt ==
  \A p \in PromptsSent :
    /\ (args # <<>> => Contains(p, Join(args)))
    /\ (args = <<>> /\ kind = "Caption" => Contains(p, CAPTION_DEFAULT_TOPIC))
    /\ (args = <<>> /\ kind = "Post" => Contains(p, POST_DEFAULT_TOPIC))

\* the kinds of failure whose exceptions include e
KindsOf(e) == {k \in ImageFaults : e \in Raises(k)}

C8_JoinBarrier ==
  kind = "Post" =>
    /\ (img # <<>> \/ logo # <<>> \/ logoFetches > 0 \/ sent # <<>> \/ pc = "post_reply"
          => /\ Len(textCalls) = 1 /\ Len(imageCalls) = 1
             /\ caption_text # <<>> /\ raw_img # <<>>
             /\ fault = <<>>)
    /\ (fault # <<>> => img = <<>> /\ logo = <<>> /\ logoFetches = 0 /\ sent = <<>>)
    /\ (pc = "post_mark" => caption_text # <<>> /\ raw_img # <<>>)

\* C8 witness: both calls returned and the logo was then fetched
C8_Witness ==
  /\ kind = "Post" /\ pc = "post_reply" /\ logoFetches = 1
  /\ caption_text # <<>> /\ raw_img # <<>>

\* C9: in one run the chat endpoint is called at most once, the images
\* endpoint at most once and never by idea or caption, the logo is fetched at
\* most once, at most one reply is delivered, and a failed call is the last
\* generation call of the run.
C9_NoRetry ==
  /\ Len(textCalls) <= 1
  /\ Len(imageCalls) <= 1
  /\ logoFetches <= 1
  /\ (kind \in {"Idea", "Caption"} => imageCalls = <<>> /\ logoFetches = 0)
  /\ Len(sent) <= 1
  /\ (fault # <<>> => pc = "raised")
  /\ (fault # <<>> /\ fault[1].svc = "text" => Len(textCalls) = 1 /\ imageCalls = <<>>)
  /\ (fault # <<>> /\ fault[1].svc = "image" => Len(textCalls) = 1 /\ Len(imageCalls) = 1)
  /\ (pc = "start" => textCalls = <<>> /\ imageCalls = <<>>)

\* C9 witness: the chat call of a Post run timed out; it was made once and
\* the images endpoint was never called
C9_Witness ==
  /\ kind = "Post" /\ fault # <<>> /\ fault[1].svc = "text" /\ fault[1].kind = "Timeout"
  /\ Len(textCalls) = 1 /\ imageCalls = <<>> /\ pc = "raised"

====
